---- MODULE Spec2Model ----
(***************************************************************************)
(* Stroke-to-mesh tessellation of ink_engine/src/lib.rs (build_mesh).      *)
(*                                                                         *)
(* f32 values are modelled as fixed-point integers: a coordinate, a width, *)
(* a colour channel or a vector component v is stored as v * S, an angle   *)
(* in radians as milliradians (also * S).  sqrt, atan2, sin and cos are    *)
(* fixed-point routines accurate to a few units of 1/S; geometric          *)
(* equalities are therefore stated up to Tol, as they would be for f32.    *)
(* NaN and infinite inputs are outside the model.                          *)
(***************************************************************************)
EXTENDS Integers, Sequences, FiniteSets, TLC

\* ------------------------------------------------------------------ bounds
MaxPts == 3          \* at most this many (x, y) pairs in `points`

\* ------------------------------------------------------ fixed-point f32
S == 1000

Abs(x) == IF x < 0 THEN -x ELSE x

Max(x, y) == IF x >= y THEN x ELSE y

\* a / b rounded to nearest, symmetric about zero (f32 division)
RDiv(a, b) ==
  LET q == (2 * Abs(a) + Abs(b)) \div (2 * Abs(b))
  IN  IF (a < 0) = (b < 0) THEN q ELSE -q

\* x * y for two fixed-point values (f32 multiplication)
Mul(x, y) == RDiv(x * y, S)

RECURSIVE SqrtIter(_, _, _)
SqrtIter(m, lo, hi) ==
  IF lo >= hi THEN lo
  ELSE LET mid == (lo + hi + 1) \div 2
       IN  IF mid * mid <= m THEN SqrtIter(m, mid, hi)
           ELSE SqrtIter(m, lo, mid - 1)

\* f32::sqrt on a non-negative fixed-point value
Sqrt(x) == SqrtIter(x * S, 0, 46340)

\* std::f32::consts::PI, in milliradians
PI == 3142

TwoPi == PI * 2

HalfPi == RDiv(PI, 2)

\* atan(t) for 0 <= t <= 1
AtanUnit(t) ==
  RDiv(PI * t, 4 * S) + Mul(Mul(t, S - t), 245 + Mul(66, t))

\* atan(ay / ax) for ax, ay >= 0, not both 0: in [0, PI/2]
AtanQuadrant(ay, ax) ==
  IF ay > ax THEN HalfPi - AtanUnit(RDiv(ax * S, ay))
  ELSE AtanUnit(RDiv(ay * S, ax))

\* the angle in [-PI, PI] of a vector in the quadrant of (x, y) whose angle
\* from the x axis is q
Signed(y, x, q) ==
  IF y < 0 THEN (IF x < 0 THEN q - PI ELSE -q)
  ELSE (IF x < 0 THEN PI - q ELSE q)

\* f32::atan2(y, x), result in [-PI, PI]
Atan2(y, x) ==
  IF x = 0 /\ y = 0 THEN 0
  ELSE Signed(y, x, AtanQuadrant(Abs(y), Abs(x)))

\* 16 q / (5 PI^2 - 4 q), the sine of x in [0, PI] from q = x (PI - x) / 100
SinOf(q) == RDiv(16 * q * S, RDiv(5 * PI * PI, 100) - 4 * q)

\* sin(x) for 0 <= x <= PI
SinHalf(x) == SinOf(RDiv(x * (PI - x), 100))

\* sin(x) for 0 <= x < 2 PI
SinTurn(x) == IF x <= PI THEN SinHalf(x) ELSE -SinHalf(x - PI)

\* f32::sin
Sin(x) == SinTurn(x % TwoPi)

\* f32::cos
Cos(x) == Sin(x + HalfPi)

\* x < 1/inv and x > 1/inv for a fixed-point x and a threshold 1/inv below
\* the resolution (1e-6, 1e-4), compared without scaling x up
Below(x, inv) == x < -((-S) \div inv)

Above(x, inv) == x > S \div inv

\* ------------------------------------------------------------ slices
\* slice[k], 0-based
At(s, k) == s[k + 1]

\* slice.get(k).unwrap_or(&d)
Get(s, k, d) == IF k >= 0 /\ k < Len(s) THEN s[k + 1] ELSE d

\* an index expression slice[k] panics unless this holds
InRange(s, k) == k >= 0 /\ k < Len(s)

\* vec[k] = v, 0-based
Put(s, k, v) == [s EXCEPT ![k + 1] = v]

\* ------------------------------------------------------------- inputs
\* segment vectors of the input polylines: a repeated point, the axis
\* directions, a diagonal, and two that turn by more than 150 degrees after
\* a step along +x (one to the left, one to the right)
Moves ==
  { <<0, 0>>, <<S, 0>>, <<-S, 0>>, <<0, S>>, <<0, -S>>, <<S, S>>,
    <<-2 * S, S>>, <<-2 * S, -S>> }

Start == <<S, 2 * S>>

\* the flat x, y array of the polyline from Start along the moves ms
RECURSIVE Path(_, _, _)
Path(flat, at, ms) ==
  IF ms = <<>> THEN flat
  ELSE LET to == <<at[1] + Head(ms)[1], at[2] + Head(ms)[2]>>
       IN  Path(flat \o to, to, Tail(ms))

\* polylines of 0..MaxPts points, and the same followed by one dangling
\* scalar (odd length)
PointArrays ==
  LET poly(k) == {Path(Start, Start, ms) : ms \in [1..(k - 1) -> Moves]}
      even == {<<>>} \cup UNION {poly(k) : k \in 1..MaxPts}
  IN  even \cup {p \o <<S>> : p \in even}

WidthVals == {-2 * S, 0, 2 * S}

\* no widths, one width, two unequal widths, and a uniform width for every
\* point
WidthArrays ==
  {<<>>} \cup {<<w>> : w \in WidthVals}
         \cup {<<2 * S, -2 * S>>, <<0, 2 * S>>}
         \cup {[j \in 1..MaxPts |-> w] : w \in WidthVals}

ColorVals == {0, S \div 4, S}

ColorArrays == UNION {[1..k -> ColorVals] : k \in 0..4}

Red == <<S, 0, 0, S>>

\* strokes used with every colour array: empty, single point, straight
\* segment, hairpin (round join)
ColorStrokes ==
  { <<>>, <<S, S>>, <<0, 0, S, 0>>, <<0, 0, 2 * S, 0, 0, 0>> }

VARIABLES points, widths, color,
          pc, i, n, r, g, b, a,
          dirs, norms,
          left_prev, right_prev, left_next, right_next, join,
          vertices, fans

vars == <<points, widths, color, pc, i, n, r, g, b, a, dirs, norms,
          left_prev, right_prev, left_next, right_next, join,
          vertices, fans>>

inputs == <<points, widths, color>>

rgba == <<r, g, b, a>>

offsets == <<left_prev, right_prev, left_next, right_next, join>>

Init ==
  /\ \/ /\ points \in PointArrays
        /\ widths \in WidthArrays
        /\ color = Red
     \/ /\ points \in ColorStrokes
        /\ widths = <<S, S, S>>
        /\ color \in ColorArrays
  /\ pc = "start"
  /\ i = 0
  /\ n = 0
  /\ r = 0 /\ g = 0 /\ b = 0 /\ a = 0
  /\ dirs = <<>> /\ norms = <<>>
  /\ left_prev = <<>> /\ right_prev = <<>>
  /\ left_next = <<>> /\ right_next = <<>>
  /\ join = <<>>
  /\ vertices = <<>>
  /\ fans = <<>>

\* ------------------------------------------------------------- emitters
\* mutant of push_vertex: the alpha channel is not pushed
push_vertex_no_alpha(out, x, y, cr, cg, cb, ca) == out \o <<x, y, cr, cg, cb>>

push_vertex(out, x, y, cr, cg, cb, ca) == out \o <<x, y, cr, cg, cb, ca>>

push_tri(out, p, q, w, cr, cg, cb, ca) ==
  push_vertex(
    push_vertex(
      push_vertex(out, p[1], p[2], cr, cg, cb, ca),
      q[1], q[2], cr, cg, cb, ca),
    w[1], w[2], cr, cg, cb, ca)

\* point on the circle of the given radius about (cx, cy) at angle t
ArcPoint(cx, cy, t, radius) ==
  <<cx + Mul(Cos(t), radius), cy + Mul(Sin(t), radius)>>

DiscSteps == 24

\* mutant of DiscAngle: the factor 2.0 is missing (a half turn)
DiscAngleHalfTurn(k) == Mul(RDiv(k * S, DiscSteps), PI)

\* (k as f32) / (steps as f32) * PI * 2.0
DiscAngle(k) == Mul(RDiv(k * S, DiscSteps), PI) * 2

\* the triangles pushed by iterations lo .. hi - 1 of the loop of
\* circle_mesh, in order (evaluated by halves)
RECURSIVE CircleLoop(_, _, _, _, _, _, _, _, _)
CircleLoop(lo, hi, cx, cy, radius, cr, cg, cb, ca) ==
  IF lo >= hi THEN <<>>
  ELSE IF hi = lo + 1
  THEN push_tri(<<>>, <<cx, cy>>,
                ArcPoint(cx, cy, DiscAngle(lo), radius),
                ArcPoint(cx, cy, DiscAngle(lo + 1), radius),
                cr, cg, cb, ca)
  ELSE CircleLoop(lo, (lo + hi) \div 2, cx, cy, radius, cr, cg, cb, ca)
         \o CircleLoop((lo + hi) \div 2, hi, cx, cy, radius, cr, cg, cb, ca)

circle_mesh(cx, cy, radius, cr, cg, cb, ca) ==
  CircleLoop(0, DiscSteps, cx, cy, radius, cr, cg, cb, ca)

\* while a1 < a0 { a1 += 2 PI }: the final a1 and the iterations taken
RECURSIVE WrapLoop(_, _, _)
WrapLoop(a0, a1, k) ==
  IF a1 < a0 THEN WrapLoop(a0, a1 + TwoPi, k + 1)
  ELSE [a1 |-> a1, wraps |-> k]

\* ((angle / (PI / d)).ceil() as usize).max(m)
FanSteps(angle, d, m) == Max(Max(-((-(angle * d)) \div PI), 0), m)

\* for s in 0..steps { ... push_tri(center, p0, p1) }
\* a0 + angle * (s as f32) / (steps as f32)
FanAngleAt(a0, angle, s, steps) == a0 + RDiv(angle * s, steps)

\* the triangles pushed by iterations lo .. hi - 1 of a fan loop, in order
\* (evaluated by halves)
RECURSIVE FanLoop(_, _, _, _, _, _, _, _, _, _, _, _)
FanLoop(lo, hi, steps, cx, cy, a0, angle, radius, cr, cg, cb, ca) ==
  IF lo >= hi THEN <<>>
  ELSE IF hi = lo + 1
  THEN push_tri(<<>>, <<cx, cy>>,
                ArcPoint(cx, cy, FanAngleAt(a0, angle, lo, steps), radius),
                ArcPoint(cx, cy, FanAngleAt(a0, angle, lo + 1, steps), radius),
                cr, cg, cb, ca)
  ELSE FanLoop(lo, (lo + hi) \div 2, steps, cx, cy, a0, angle, radius,
               cr, cg, cb, ca)
         \o FanLoop((lo + hi) \div 2, hi, steps, cx, cy, a0, angle, radius,
                    cr, cg, cb, ca)

\* the locals of a fan once its wrap loop has run (w): start angle, end
\* angle, angle = a1 - a0, wrap iterations, steps
FanOf(a0, w, d, m) ==
  [a0 |-> a0, a1 |-> w.a1, angle |-> w.a1 - a0, wraps |-> w.wraps,
   steps |-> FanSteps(w.a1 - a0, d, m)]

\* the same from the two atan2 results
FanFrom(a0, a1, d, m) == FanOf(a0, WrapLoop(a0, a1, 0), d, m)

\* the locals of a fan from direction u to direction v
FanAngles(u, v, d, m) ==
  FanFrom(Atan2(u[2], u[1]), Atan2(v[2], v[1]), d, m)

\* the fan with locals f about (cx, cy)
Fan(out, cx, cy, f, radius, cr, cg, cb, ca) ==
  out \o FanLoop(0, f.steps, f.steps, cx, cy, f.a0, f.angle, radius,
                 cr, cg, cb, ca)

CapDiv == 10

CapMin == 6

\* a0 = atan2(-normal), a1 = atan2(normal), wrapped; steps
CapAngles(normal) ==
  FanAngles(<<-normal[1], -normal[2]>>, normal, CapDiv, CapMin)

cap_mesh(out, center, normal, radius, cr, cg, cb, ca) ==
  Fan(out, center[1], center[2], CapAngles(normal), radius, cr, cg, cb, ca)

\* ------------------------------------------------------------ build_mesh
\* mutant of NumPoints: the pair count is rounded up
NumPointsCeil(pts) == (Len(pts) + 1) \div 2

\* let n = points.len() / 2
NumPoints(pts) == Len(pts) \div 2

Half == S \div 2

\* widths.get(k).unwrap_or(&1.0) * 0.5
Radius(k) == Mul(Get(widths, k, S), Half)

\* mutant of Channel: every missing channel defaults to 0, alpha included
ChannelDefaultZero(k, d) == Get(color, k, 0)

\* color.get(k).unwrap_or(&d)
Channel(k, d) == Get(color, k, d)

\* px/py +- v * radius
Offset(px, py, v, radius, sign) ==
  <<px + sign * Mul(v[1], radius), py + sign * Mul(v[2], radius)>>

\* if n == 0 { return Vec::new(); }
ReturnEmpty ==
  /\ pc = "start"
  /\ NumPoints(points) = 0
  /\ n' = 0
  /\ vertices' = <<>>
  /\ pc' = "done"
  /\ UNCHANGED <<inputs, i, rgba, dirs, norms, offsets, fans>>

\* if n == 1 { return circle_mesh(...) }
Disc ==
  /\ pc = "start"
  /\ NumPoints(points) = 1
  /\ n' = 1
  /\ r' = Channel(0, 0)
  /\ g' = Channel(1, 0)
  /\ b' = Channel(2, 0)
  /\ a' = Channel(3, S)
  /\ IF InRange(points, 0) /\ InRange(points, 1)
     THEN /\ vertices' = circle_mesh(At(points, 0), At(points, 1), Radius(0),
                                     r', g', b', a')
          /\ pc' = "done"
     ELSE /\ pc' = "panic"
          /\ UNCHANGED vertices
  /\ UNCHANGED <<inputs, i, dirs, norms, offsets, fans>>

\* n >= 2: resolve the colour and enter the direction loop
Begin ==
  /\ pc = "start"
  /\ NumPoints(points) >= 2
  /\ n' = NumPoints(points)
  /\ r' = Channel(0, 0)
  /\ g' = Channel(1, 0)
  /\ b' = Channel(2, 0)
  /\ a' = Channel(3, S)
  /\ dirs' = <<>>
  /\ norms' = <<>>
  /\ i' = 0
  /\ pc' = "dirs"
  /\ UNCHANGED <<inputs, offsets, vertices, fans>>

\* .max(1e-6)
LenFloorInv == 1000000

\* mutant of Direction: the square root is missing from the length
DirectionNoSqrt(dx, dy) ==
  LET len == Mul(dx, dx) + Mul(dy, dy)
  IN  IF Below(len, LenFloorInv)
      THEN <<dx * LenFloorInv, dy * LenFloorInv>>
      ELSE <<RDiv(dx * S, len), RDiv(dy * S, len)>>

\* (dx / len.max(1e-6), dy / len.max(1e-6)) for len = sqrt(dx*dx + dy*dy)
Direction(dx, dy) ==
  LET len == Sqrt(Mul(dx, dx) + Mul(dy, dy))
  IN  IF Below(len, LenFloorInv)
      THEN <<dx * LenFloorInv, dy * LenFloorInv>>
      ELSE <<RDiv(dx * S, len), RDiv(dy * S, len)>>

\* (-dir.1, dir.0)
Normal(dir) == <<-dir[2], dir[1]>>

Zeros(k) == [j \in 1..k |-> <<0, 0>>]

\* one iteration of the loop over the n - 1 segments; the last one also
\* allocates the offset arrays
DirStep ==
  /\ pc = "dirs"
  /\ i < n - 1
  /\ IF InRange(points, (i + 1) * 2 + 1)
     THEN LET x0 == At(points, i * 2)
              y0 == At(points, i * 2 + 1)
              x1 == At(points, (i + 1) * 2)
              y1 == At(points, (i + 1) * 2 + 1)
              dir == Direction(x1 - x0, y1 - y0)
          IN  /\ dirs' = Append(dirs, dir)
              /\ norms' = Append(norms, Normal(dir))
              /\ IF i + 1 < n - 1
                 THEN /\ i' = i + 1
                      /\ UNCHANGED <<pc, offsets>>
                 ELSE /\ i' = 0
                      /\ pc' = "offsets"
                      /\ left_prev' = Zeros(n)
                      /\ right_prev' = Zeros(n)
                      /\ left_next' = Zeros(n)
                      /\ right_next' = Zeros(n)
                      /\ join' = [j \in 1..n |-> TRUE]
     ELSE /\ pc' = "panic"
          /\ UNCHANGED <<i, dirs, norms, offsets>>
  /\ UNCHANGED <<inputs, n, rgba, vertices, fans>>

MiterEpsInv == 10000

DotEpsInv == 1000000

miter_limit == 4 * S

\* mutant of JoinAt: the miter length is compared with the limit alone, not
\* with limit * radius
JoinAtUnscaledLimit(px, py, n0, n1, radius) ==
  LET miter == <<n0[1] + n1[1], n0[2] + n1[2]>>
      miter_len == Sqrt(Mul(miter[1], miter[1]) + Mul(miter[2], miter[2]))
      round == [lp |-> Offset(px, py, n0, radius, 1),
                rp |-> Offset(px, py, n0, radius, -1),
                ln |-> Offset(px, py, n1, radius, 1),
                rn |-> Offset(px, py, n1, radius, -1),
                miter |-> FALSE]
  IN  IF Below(miter_len, MiterEpsInv) THEN round
      ELSE LET mdir == <<RDiv(miter[1] * S, miter_len),
                         RDiv(miter[2] * S, miter_len)>>
               dot == Mul(mdir[1], n1[1]) + Mul(mdir[2], n1[2])
               miter_length == IF Above(Abs(dot), DotEpsInv)
                               THEN RDiv(radius * S, dot) ELSE radius
               l == Offset(px, py, mdir, miter_length, 1)
               rt == Offset(px, py, mdir, miter_length, -1)
           IN  IF Abs(miter_length) <= miter_limit
               THEN [lp |-> l, rp |-> rt, ln |-> l, rn |-> rt, miter |-> TRUE]
               ELSE round

\* the offsets and the join kind of an interior point (miter = TRUE)
JoinAt(px, py, n0, n1, radius) ==
  LET miter == <<n0[1] + n1[1], n0[2] + n1[2]>>
      miter_len == Sqrt(Mul(miter[1], miter[1]) + Mul(miter[2], miter[2]))
      round == [lp |-> Offset(px, py, n0, radius, 1),
                rp |-> Offset(px, py, n0, radius, -1),
                ln |-> Offset(px, py, n1, radius, 1),
                rn |-> Offset(px, py, n1, radius, -1),
                miter |-> FALSE]
  IN  IF Below(miter_len, MiterEpsInv) THEN round
      ELSE LET mdir == <<RDiv(miter[1] * S, miter_len),
                         RDiv(miter[2] * S, miter_len)>>
               dot == Mul(mdir[1], n1[1]) + Mul(mdir[2], n1[2])
               miter_length == IF Above(Abs(dot), DotEpsInv)
                               THEN RDiv(radius * S, dot) ELSE radius
               l == Offset(px, py, mdir, miter_length, 1)
               rt == Offset(px, py, mdir, miter_length, -1)
           IN  IF Abs(miter_length) <= Mul(miter_limit, radius)
               THEN [lp |-> l, rp |-> rt, ln |-> l, rn |-> rt, miter |-> TRUE]
               ELSE round

\* one iteration of the loop over the n points
OffsetStep ==
  /\ pc = "offsets"
  /\ i < n
  /\ LET k == IF i = 0 THEN 0 ELSE IF i = n - 1 THEN n - 2 ELSE i
         ok == /\ InRange(points, i * 2 + 1)
               /\ InRange(norms, k)
               /\ (0 < i /\ i < n - 1) => InRange(norms, i - 1)
               /\ InRange(left_prev, i)
     IN  IF ok
         THEN LET px == At(points, i * 2)
                  py == At(points, i * 2 + 1)
                  radius == Radius(i)
                  res == IF i = 0 \/ i = n - 1
                         THEN LET n0 == At(norms, k)
                                  l == Offset(px, py, n0, radius, 1)
                                  rt == Offset(px, py, n0, radius, -1)
                              IN  [lp |-> l, rp |-> rt, ln |-> l, rn |-> rt,
                                   miter |-> TRUE]
                         ELSE JoinAt(px, py, At(norms, i - 1), At(norms, i),
                                     radius)
              IN  /\ left_prev' = Put(left_prev, i, res.lp)
                  /\ right_prev' = Put(right_prev, i, res.rp)
                  /\ left_next' = Put(left_next, i, res.ln)
                  /\ right_next' = Put(right_next, i, res.rn)
                  /\ join' = Put(join, i, res.miter)
                  /\ IF i + 1 < n
                     THEN i' = i + 1 /\ UNCHANGED pc
                     ELSE i' = 0 /\ pc' = "quads"
         ELSE /\ pc' = "panic"
              /\ UNCHANGED <<i, offsets>>
  /\ UNCHANGED <<inputs, n, rgba, dirs, norms, vertices, fans>>

\* one iteration of the loop emitting the quad of segment i
QuadStep ==
  /\ pc = "quads"
  /\ i < n - 1
  /\ IF InRange(left_next, i) /\ InRange(left_prev, i + 1)
     THEN LET l0 == At(left_next, i)
              r0 == At(right_next, i)
              l1 == At(left_prev, i + 1)
              r1 == At(right_prev, i + 1)
          IN  /\ vertices' =
                   push_tri(push_tri(vertices, l0, r0, r1, r, g, b, a),
                            l0, r1, l1, r, g, b, a)
              /\ IF i + 1 < n - 1
                 THEN i' = i + 1 /\ UNCHANGED pc
                 ELSE IF 1 < n - 1
                      THEN i' = 1 /\ pc' = "joins"
                      ELSE i' = 0 /\ pc' = "caps"
     ELSE /\ pc' = "panic"
          /\ UNCHANGED <<i, vertices>>
  /\ UNCHANGED <<inputs, n, rgba, dirs, norms, offsets, fans>>

JoinDiv == 8

JoinMin == 4

\* d0.0 * d1.1 - d0.1 * d1.0
Cross(d0, d1) == Mul(d0[1], d1[2]) - Mul(d0[2], d1[1])

\* outer0 / outer1: the normal of d if cross >= 0, its opposite otherwise
Outer(d, cross) ==
  IF cross >= 0 THEN <<-d[2], d[1]>> ELSE <<d[2], -d[1]>>

\* a0 = atan2(outer0), a1 = atan2(outer1), wrapped; steps
JoinAngles(d0, d1) ==
  FanAngles(Outer(d0, Cross(d0, d1)), Outer(d1, Cross(d0, d1)),
            JoinDiv, JoinMin)

\* one iteration of the loop over the interior points: skip a miter, emit
\* the fan of a round join
JoinStep ==
  /\ pc = "joins"
  /\ i < n - 1
  /\ IF InRange(join, i) /\ InRange(points, i * 2 + 1)
        /\ InRange(dirs, i - 1) /\ InRange(dirs, i)
     THEN /\ IF At(join, i)
             THEN UNCHANGED <<vertices, fans>>
             ELSE \E f \in {JoinAngles(At(dirs, i - 1), At(dirs, i))} :
                    /\ vertices' = Fan(vertices, At(points, i * 2),
                                       At(points, i * 2 + 1), f, Radius(i),
                                       r, g, b, a)
                    /\ fans' = Append(fans,
                         [kind |-> "join", at |-> i,
                          first |-> Len(vertices), fan |-> f])
          /\ IF i + 1 < n - 1
             THEN i' = i + 1 /\ UNCHANGED pc
             ELSE i' = 0 /\ pc' = "caps"
     ELSE /\ pc' = "panic"
          /\ UNCHANGED <<i, vertices, fans>>
  /\ UNCHANGED <<inputs, n, rgba, dirs, norms, offsets>>

\* cap_mesh at the first point
CapStart ==
  /\ pc = "caps"
  /\ IF InRange(points, 1) /\ InRange(norms, 0)
     THEN /\ \E n0 \in {At(norms, 0)} :
               /\ vertices' = cap_mesh(vertices,
                                       <<At(points, 0), At(points, 1)>>,
                                       n0, Radius(0), r, g, b, a)
               /\ fans' = Append(fans,
                    [kind |-> "cap", at |-> 0, first |-> Len(vertices),
                     fan |-> CapAngles(n0)])
          /\ pc' = "cap_end"
     ELSE /\ pc' = "panic"
          /\ UNCHANGED <<vertices, fans>>
  /\ UNCHANGED <<inputs, i, n, rgba, dirs, norms, offsets>>

\* cap_mesh at the last point, and the return of the mesh
CapEnd ==
  /\ pc = "cap_end"
  /\ IF InRange(points, (n - 1) * 2 + 1) /\ InRange(norms, n - 2)
     THEN /\ \E n1 \in {At(norms, n - 2)} :
               /\ vertices' = cap_mesh(vertices,
                                       <<At(points, (n - 1) * 2),
                                         At(points, (n - 1) * 2 + 1)>>,
                                       n1, Radius(n - 1), r, g, b, a)
               /\ fans' = Append(fans,
                    [kind |-> "cap", at |-> n - 1, first |-> Len(vertices),
                     fan |-> CapAngles(n1)])
          /\ pc' = "done"
     ELSE /\ pc' = "panic"
          /\ UNCHANGED <<vertices, fans>>
  /\ UNCHANGED <<inputs, i, n, rgba, dirs, norms, offsets>>

Next ==
  \/ ReturnEmpty
  \/ Disc
  \/ Begin
  \/ DirStep
  \/ OffsetStep
  \/ QuadStep
  \/ JoinStep
  \/ CapStart
  \/ CapEnd

Spec == Init /\ [][Next]_vars

\* ------------------------------------------------- reading the mesh
Tol == S \div 50

AngTol == PI \div 100

Near(p, q) == Abs(p[1] - q[1]) <= Tol /\ Abs(p[2] - q[2]) <= Tol

TriCount == Len(vertices) \div 18

\* position and colour of vertex v (0..2) of triangle t (0-based)
Pos(t, v) == <<vertices[18 * t + 6 * v + 1], vertices[18 * t + 6 * v + 2]>>

Col(t, v) == SubSeq(vertices, 18 * t + 6 * v + 3, 18 * t + 6 * v + 6)

\* input point k (0-based)
Point(k) == <<points[2 * k + 1], points[2 * k + 2]>>

Done == pc = "done"

Stroke == Done /\ n >= 2

Interior == IF Stroke THEN 1..(n - 2) ELSE {}

FanSet(kind) == {fans[j] : j \in {j \in 1..Len(fans) : fans[j].kind = kind}}

JoinFansAt(k) == {f \in FanSet("join") : f.at = k}

FirstTri(f) == f.first \div 18

\* first and last arc sample of a fan, and the s-th sample (0..steps)
ArcFirst(f) == Pos(FirstTri(f), 1)

ArcLast(f) == Pos(FirstTri(f) + f.fan.steps - 1, 2)

ArcSample(f, s) ==
  IF s = 0 THEN ArcFirst(f) ELSE Pos(FirstTri(f) + s - 1, 2)

Dot(u, v) == Mul(u[1], v[1]) + Mul(u[2], v[2])

\* ------------------------------------------------------------- claims

\* C1: the returned vector is a whole number of 18-scalar triangles for
\* every input (odd-length points included), and it is empty when
\* n = floor(len(points) / 2) is 0.
C1_WholeTriangles ==
  /\ Len(vertices) % 18 = 0
  /\ Len(vertices) % 6 = 0
  /\ (Done /\ Len(points) \div 2 = 0) => vertices = <<>>

C1_Witness ==
  /\ Done
  /\ Len(points) % 2 = 1
  /\ FanSet("join") # {}
  /\ Len(vertices) > 0

\* C2: a single point gives exactly the 24-triangle disc: triangle k has the
\* point first, then the circle samples at k/24 and (k+1)/24 of a turn, with
\* radius widths[0]/2 (0.5 without widths); nothing else is emitted.
DiscRadius == IF widths = <<>> THEN S \div 2 ELSE RDiv(widths[1], 2)

DiscSample(k) ==
  <<Point(0)[1] + Mul(Cos(RDiv(k * TwoPi, 24)), DiscRadius),
    Point(0)[2] + Mul(Sin(RDiv(k * TwoPi, 24)), DiscRadius)>>

C2_SinglePointDisc ==
  (Done /\ Len(points) \div 2 = 1) =>
    /\ TriCount = 24
    /\ Len(vertices) = 432
    /\ fans = <<>>
    /\ \A k \in 0..23 :
         /\ Pos(k, 0) = Point(0)
         /\ Near(Pos(k, 1), DiscSample(k))
         /\ Near(Pos(k, 2), DiscSample(k + 1))

C2_Witness ==
  /\ Done
  /\ Len(points) \div 2 = 1
  /\ widths # <<>>
  /\ widths[1] = 2 * S
  /\ TriCount = 24

\* C3: every emitted vertex carries the resolved colour: channel k is
\* color[k] when present, else 0 for r, g, b and 1 for a.
Resolved ==
  [k \in 1..4 |-> IF k <= Len(color) THEN color[k]
                  ELSE IF k = 4 THEN S ELSE 0]

C3_VertexColor ==
  (n >= 1 /\ Len(vertices) % 18 = 0) =>
    \A t \in 0..(TriCount - 1) : \A v \in 0..2 : Col(t, v) = Resolved

C3_Witness ==
  /\ Done
  /\ Len(color) = 2
  /\ color[1] = S \div 4
  /\ FanSet("join") # {}
  /\ FanSet("cap") # {}

\* C4: an interior point is Round exactly when the sum of the adjacent
\* normals is shorter than 1e-4 or the miter length exceeds 4 x radius in
\* magnitude; a join fan is emitted at exactly the Round points, the
\* _prev and _next offsets coincide at the Miter points, and no fan is
\* emitted at an endpoint.
NormalSum(k) == <<norms[k][1] + norms[k + 1][1], norms[k][2] + norms[k + 1][2]>>

SumLen(k) == Sqrt(Mul(NormalSum(k)[1], NormalSum(k)[1])
                  + Mul(NormalSum(k)[2], NormalSum(k)[2]))

SumDot(k) ==
  Dot(<<RDiv(NormalSum(k)[1] * S, SumLen(k)),
        RDiv(NormalSum(k)[2] * S, SumLen(k))>>, norms[k + 1])

MiterLen(k) ==
  IF SumDot(k) = 0 THEN Radius(k) ELSE RDiv(Radius(k) * S, SumDot(k))

\* k is the 0-based index of an interior point
IsRound(k) ==
  \/ Below(SumLen(k), 10000)
  \/ Abs(MiterLen(k)) > 4 * Radius(k)

C4_JoinClassification ==
  Stroke =>
    /\ \A k \in Interior :
         /\ IsRound(k) <=> JoinFansAt(k) # {}
         /\ IsRound(k) <=> ~join[k + 1]
         /\ Cardinality(JoinFansAt(k)) <= 1
         /\ ~IsRound(k) =>
              /\ left_prev[k + 1] = left_next[k + 1]
              /\ right_prev[k + 1] = right_next[k + 1]
    /\ JoinFansAt(0) = {}
    /\ JoinFansAt(n - 1) = {}
    /\ Cardinality(FanSet("join")) <= n - 2

\* a corner sharper than the miter limit with a positive radius
C4_Witness ==
  /\ Stroke
  /\ n = 3
  /\ Radius(1) > 0
  /\ SumLen(1) > 0
  /\ IsRound(1)
  /\ JoinFansAt(1) # {}

\* the vector of segment k (0-based), from the input points
Seg(k) == <<Point(k + 1)[1] - Point(k)[1], Point(k + 1)[2] - Point(k)[2]>>

\* segments k - 1 and k are collinear and advance in the same direction
Straight(k) ==
  /\ Seg(k - 1)[1] * Seg(k)[2] - Seg(k - 1)[2] * Seg(k)[1] = 0
  /\ Seg(k - 1)[1] * Seg(k)[1] + Seg(k - 1)[2] * Seg(k)[2] > 0

CapCount(k) ==
  Cardinality({j \in 1..Len(fans) : fans[j].kind = "cap" /\ fans[j].at = k})

CapTris == {f.fan.steps : f \in FanSet("cap")}

SumSteps(kind) ==
  LET idx == {j \in 1..Len(fans) : fans[j].kind = kind}
      RECURSIVE Sum(_)
      Sum(js) == IF js = {} THEN 0
                 ELSE LET j == CHOOSE x \in js : TRUE
                      IN  fans[j].fan.steps + Sum(js \ {j})
  IN  Sum(idx)

\* C5: a 2-point stroke, and a straight 3-point stroke of equal width (any
\* width), has no join fan: its interior point is Miter and the mesh is
\* 2 (n - 1) quad triangles plus two caps of at least 6 triangles each.
C5_StraightNoJoin ==
  (Stroke /\ (n = 2 \/ (n = 3 /\ Straight(1)
                        /\ Radius(0) = Radius(1) /\ Radius(1) = Radius(2)))) =>
    /\ FanSet("join") = {}
    /\ \A k \in Interior : join[k + 1]
    /\ CapCount(0) = 1
    /\ CapCount(n - 1) = 1
    /\ \A c \in CapTris : c >= 6
    /\ TriCount = 2 * (n - 1) + SumSteps("cap")

\* the cross product the join emitter branches on, at interior point k
TurnCross(k) == Cross(dirs[k], dirs[k + 1])

\* the offsets of point k on the convex side of its turn: the right-hand
\* ones for a left turn (cross >= 0), the left-hand ones for a right turn
OuterPrev(k) ==
  IF TurnCross(k) >= 0 THEN right_prev[k + 1] ELSE left_prev[k + 1]

OuterNext(k) ==
  IF TurnCross(k) >= 0 THEN right_next[k + 1] ELSE left_next[k + 1]

\* C6: every join fan lies on the outer side of its turn: it starts at the
\* incoming quad's end offset and ends at the outgoing quad's start offset
\* on that side (stated for the strokes of positive width).
C6_FanOnOuterSide ==
  Stroke =>
    \A f \in FanSet("join") :
      Radius(f.at) > 0 =>
        /\ Near(ArcFirst(f), OuterPrev(f.at))
        /\ Near(ArcLast(f), OuterNext(f.at))

\* the unsigned angle between the directions of segments k - 1 and k
TurnAngle(k) == Atan2(Abs(TurnCross(k)), Dot(dirs[k], dirs[k + 1]))

\* C7: a join fan sweeps the unsigned turn angle between the two adjacent
\* directions, never more than a half turn, for left and right turns alike
\* (stated for positive widths and segments of non-zero length).
C7_SweepIsTurnAngle ==
  Stroke =>
    \A f \in FanSet("join") :
      (Radius(f.at) > 0 /\ dirs[f.at] # <<0, 0>> /\ dirs[f.at + 1] # <<0, 0>>) =>
        /\ Abs(f.fan.angle - TurnAngle(f.at)) <= AngTol
        /\ f.fan.angle <= PI + AngTol

\* |d|^2 = 1 within the resolution of the arithmetic
IsUnit(d) == Abs(d[1] * d[1] + d[2] * d[2] - S * S) <= 4 * S

LeftPerp(d) == <<-d[2], d[1]>>

\* C8: every computed segment direction is a unit vector and its normal the
\* unit left-hand perpendicular, zero-length segments included.
C8_UnitDirections ==
  \A k \in 1..Len(dirs) :
    /\ IsUnit(dirs[k])
    /\ norms[k] = LeftPerp(dirs[k])
    /\ IsUnit(norms[k])

\* C8 as amended: a direction is a unit vector when the two endpoints
\* differ and the zero vector when they coincide (the length floor only
\* keeps the division finite); the normal is its left-hand perpendicular.
C8_DirectionsFloored ==
  /\ Len(dirs) = Len(norms)
  /\ (n >= 2 /\ pc \in {"offsets", "quads", "joins", "caps", "cap_end", "done"})
       => Len(dirs) = n - 1
  /\ \A k \in 1..Len(dirs) :
       /\ Seg(k - 1) # <<0, 0>> => IsUnit(dirs[k]) /\ IsUnit(norms[k])
       /\ Seg(k - 1) = <<0, 0>> => dirs[k] = <<0, 0>>
       /\ norms[k] = LeftPerp(dirs[k])
       /\ Dot(dirs[k], Seg(k - 1)) >= 0

C8_Witness ==
  /\ Done
  /\ n = 3
  /\ Seg(0) = <<0, 0>>
  /\ Seg(1) = <<-2 * S, S>>
  /\ dirs[1] = <<0, 0>>

\* the guard of some step of build_mesh holds
CanStep ==
  \/ pc = "start"
  \/ pc \in {"dirs", "quads", "joins"} /\ i < n - 1
  \/ pc = "offsets" /\ i < n
  \/ pc \in {"caps", "cap_end"}

\* C9: build_mesh never panics and always returns: no index is out of
\* bounds, a wrap loop runs at most once, a fan has a bounded number of
\* steps, a missing width is diameter 1.0, and every unfinished call can
\* take its next step.
C9_NoPanicTerminates ==
  /\ pc # "panic"
  /\ \A j \in 1..Len(fans) :
       /\ fans[j].fan.wraps <= 1
       /\ fans[j].fan.steps >= 4
       /\ fans[j].fan.steps <= 20
       /\ fans[j].fan.angle >= 0
       /\ fans[j].fan.angle <= TwoPi
       /\ fans[j].at >= Len(widths) =>
            /\ Abs(ArcFirst(fans[j])[1] - Point(fans[j].at)[1]) <= S \div 2 + Tol
            /\ Abs(ArcFirst(fans[j])[2] - Point(fans[j].at)[2]) <= S \div 2 + Tol
            /\ Abs(ArcFirst(fans[j])[1] - Point(fans[j].at)[1])
                 + Abs(ArcFirst(fans[j])[2] - Point(fans[j].at)[2])
                 >= S \div 2 - Tol
  /\ ~Done => CanStep

C9_Witness ==
  /\ Done
  /\ Len(points) % 2 = 1
  /\ n = 3
  /\ Len(widths) = 1
  /\ widths[1] = -2 * S
  /\ \E j \in 1..Len(fans) : fans[j].fan.wraps = 1
  /\ FanSet("join") # {}

\* the caps: the fan logged at the first point and the one at the last
StartCap == {fans[j] : j \in {j \in 1..Len(fans) :
                                fans[j].kind = "cap" /\ j = Len(fans) - 1}}

EndCap == {fans[j] : j \in {j \in 1..Len(fans) :
                              fans[j].kind = "cap" /\ j = Len(fans)}}

\* the component of arc sample s of fan f along direction d, from point k
Along(f, s, k, d) ==
  Dot(<<ArcSample(f, s)[1] - Point(k)[1], ArcSample(f, s)[2] - Point(k)[2]>>, d)

\* C10: with distinct first two and last two points, the start cap lies
\* behind the first point (against the first direction), the end cap lies
\* ahead of the last point (along the last direction), and each cap runs
\* from the endpoint's right offset to its left offset.
C10_CapsPointOutward ==
  (Stroke /\ Seg(0) # <<0, 0>> /\ Seg(n - 2) # <<0, 0>>) =>
    /\ \A f \in StartCap :
         /\ \A s \in 0..f.fan.steps : Along(f, s, 0, dirs[1]) <= Tol
         /\ Near(ArcFirst(f), right_prev[1])
         /\ Near(ArcLast(f), left_prev[1])
    /\ \A f \in EndCap :
         /\ \A s \in 0..f.fan.steps : Along(f, s, n - 1, dirs[n - 1]) >= -Tol
         /\ Near(ArcFirst(f), right_prev[n])
         /\ Near(ArcLast(f), left_prev[n])

====
